---- MODULE Spec2Model ----
(***************************************************************************)
(* Browser sessions of the multi-library scraping framework.               *)
(*                                                                         *)
(* PlaywrightBrowser (frameworks/playwright/playwright.browser.ts) and     *)
(* PuppeteerBrowser (the class that follows safeRun in                     *)
(* frameworks/common/utils.ts) each keep a tab list `tabs`, an index       *)
(* `currentTab` and a page pointer `page`; every public operation runs its *)
(* callback under safeRun.  The automation engine (pages, context,         *)
(* process) is modelled only as far as the session code observes it: a     *)
(* page has a URL and is open or closed, the context and the process are   *)
(* open or released.                                                       *)
(***************************************************************************)
EXTENDS Integers, Sequences, FiniteSets, TLC

\* Bound: number of pages the browsing context creates in one run.
MaxPages == 3

URLs == {"A", "B"}
Blank == "about:blank"
NoUrl == ""                 \* openTab(url?) called without a (truthy) url
NoPage == 0                 \* JavaScript `undefined` where a Page is expected
Undefined == "undefined"    \* JavaScript `undefined` as the value of a call
NoTab == -99                \* placeholder: the call takes no tab number

Backends == {"playwright", "puppeteer"}
TabNumbers == -1 .. MaxPages

VARIABLES
  backend,       \* which class the session is an instance of
  config,        \* the resolved configuration (configOverrides())
  tabs,          \* this.tabs: sequence of page ids
  currentTab,    \* this.currentTab (0-based, as in the code)
  page,          \* this.page: page id or NoPage
  url,           \* engine: url[p] of every page created so far
  closed,        \* engine: closed[p] of every page created so far
  contextOpen,   \* engine: the browsing context is not released
  browserOpen,   \* engine: the browser process is not released
  lastCall,      \* the last public call and what the caller saw of it
  trace,         \* the calls since init(), while they follow a scenario
  projectConfig, \* the project's config object, which configOverrides overlays
  dom,           \* engine: the nodes of the page, in document order
  elem,          \* the Element under test (a PlaywrightSelector/PuppeteerSelector)
  ecall,         \* the last call on an Element and what the caller saw of it
  twin,          \* a Puppeteer session driven in step with a Playwright one
  sites          \* the call sites suspended at a backend await

vars == <<backend, config, tabs, currentTab, page, url, closed,
          contextOpen, browserOpen, lastCall, trace,
          projectConfig, dom, elem, ecall, twin, sites>>

----------------------------------------------------------------------------
(* JavaScript array semantics used by the sessions.                        *)

Min(a, b) == IF a < b THEN a ELSE b
Max(a, b) == IF a > b THEN a ELSE b

\* seq[i] with a 0-based index: undefined outside the array.
At(seq, i) == IF i >= 0 /\ i < Len(seq) THEN seq[i + 1] ELSE NoPage

\* seq.splice(start, 1): a negative start counts from the end.
Splice1(seq, start) ==
  LET n  == Len(seq)
      st == IF start < 0 THEN Max(n + start, 0) ELSE Min(start, n)
  IN  IF st < n THEN SubSeq(seq, 1, st) \o SubSeq(seq, st + 2, n) ELSE seq

----------------------------------------------------------------------------
(* The session with its engine, as one record.                             *)

S == [tabs |-> tabs, currentTab |-> currentTab, page |-> page,
      url |-> url, closed |-> closed,
      contextOpen |-> contextOpen, browserOpen |-> browserOpen]

\* What a callback handed to safeRun did: the state it left, whether it
\* returned (ok) or threw (err), the page it acted on, and whether it read
\* tabs[currentTab] while tabs was empty.
Ok(s, value, target, idxEmpty) ==
  [s |-> s, ok |-> TRUE, err |-> "none", value |-> value,
   target |-> target, idxEmpty |-> idxEmpty]
Fail(s, err, target, idxEmpty) ==
  [s |-> s, ok |-> FALSE, err |-> err, value |-> Undefined,
   target |-> target, idxEmpty |-> idxEmpty]

----------------------------------------------------------------------------
(* Engine calls.                                                           *)

\* context.newPage(): possible while the context and the process live.
CanNewPage(s) == s.browserOpen /\ s.contextOpen
NewPage(s) == [s EXCEPT !.url = Append(@, Blank), !.closed = Append(@, FALSE)]

\* browser.close(): releases the process, its contexts and their pages.
BrowserClose(s) ==
  [s EXCEPT !.browserOpen = FALSE, !.contextOpen = FALSE,
            !.closed = [p \in DOMAIN s.closed |-> TRUE]]

\* context.close(): releases the context and its pages.
ContextClose(s) ==
  [s EXCEPT !.contextOpen = FALSE,
            !.closed = [p \in DOMAIN s.closed |-> TRUE]]

\* page.goto(u), page.goBack(), page.goForward(): a call on undefined is a
\* TypeError, a closed page or a failed navigation is an engine error.  The
\* history of a page is the engine's: goBack/goForward land on some URL.
PageGoto(s, p, u, navOk) ==
  IF p = NoPage THEN Fail(s, "TypeError", NoPage, FALSE)
  ELSE IF s.closed[p] \/ ~navOk THEN Fail(s, "Engine", p, FALSE)
  ELSE Ok([s EXCEPT !.url[p] = u], Undefined, p, FALSE)

\* page.reload()
PageReload(s, p, navOk) ==
  IF p = NoPage THEN Fail(s, "TypeError", NoPage, FALSE)
  ELSE IF s.closed[p] \/ ~navOk THEN Fail(s, "Engine", p, FALSE)
  ELSE Ok(s, Undefined, p, FALSE)

\* page.url()
PageUrl(s, p) ==
  IF p = NoPage THEN Fail(s, "TypeError", NoPage, FALSE)
  ELSE Ok(s, s.url[p], p, FALSE)

----------------------------------------------------------------------------
(* The action policy.                                                      *)

\* getActionOptionsFromConfig(config)
getActionOptionsFromConfig(c) ==
  [timeout |-> c.actionTimeout, log |-> c.logs, throwOnFail |-> c.throwOnFail]

\* A spread in which the keys of the left operand win.
SpreadLeftWins(a, b) ==
  [k \in DOMAIN a \cup DOMAIN b |-> IF k \in DOMAIN a THEN a[k] ELSE b[k]]

\* { ...this.actionOptions, ...options }: the keys of the right operand win.
Spread(a, b) ==
  [k \in DOMAIN a \cup DOMAIN b |-> IF k \in DOMAIN b THEN b[k] ELSE a[k]]

\* options?: absent, or an object with some of the keys.
NoOptions == [k \in {} |-> TRUE]
CallOptions == {NoOptions, [throwOnFail |-> TRUE], [throwOnFail |-> FALSE]}

\* safeRun(options, callBack): r is what the callback did.  A failure is
\* rethrown when options.throwOnFail, else swallowed and undefined returned.
safeRun(options, r) ==
  [s |-> r.s, failed |-> ~r.ok, err |-> r.err,
   raised |-> ~r.ok /\ options.throwOnFail,
   value |-> IF r.ok THEN r.value ELSE Undefined,
   target |-> r.target, idxEmpty |-> r.idxEmpty]

----------------------------------------------------------------------------
(* More engine calls.                                                      *)

\* page.goBack() / page.goForward(): dest is the history entry reached.
PageGoBack(s, p, dest, navOk) == PageGoto(s, p, dest, navOk)
PageGoForward(s, p, dest, navOk) == PageGoto(s, p, dest, navOk)

\* page.close(): closing a page that is already closed is the engine's
\* business; closeOk is what it answers then.
PageClose(s, p, closeOk) ==
  IF p = NoPage THEN Fail(s, "TypeError", NoPage, FALSE)
  ELSE IF s.closed[p]
       THEN IF closeOk THEN Ok(s, Undefined, p, FALSE)
                       ELSE Fail(s, "Engine", p, FALSE)
  ELSE Ok([s EXCEPT !.closed[p] = TRUE], Undefined, p, FALSE)

----------------------------------------------------------------------------
(* PlaywrightBrowser: the callbacks its methods hand to safeRun.           *)

PlaywrightNavigateTo(s, u, navOk) == PageGoto(s, s.page, u, navOk)

PlaywrightGetUrl(s) == PageUrl(s, s.page)

\* Variant: closeBrowser that closes the context and leaves the process.
PlaywrightCloseBrowserContextOnly(s) ==
  Ok(ContextClose(s), Undefined, NoPage, FALSE)
PlaywrightCloseBrowser(s) == Ok(BrowserClose(s), Undefined, NoPage, FALSE)

PlaywrightNavigateBack(s, dest, navOk) == PageGoBack(s, s.page, dest, navOk)

PlaywrightNavigateForward(s, dest, navOk) ==
  PageGoForward(s, s.page, dest, navOk)

PlaywrightRefresh(s, navOk) == PageReload(s, s.page, navOk)

\* Variant: openTab that leaves this.page on the old tab.
PlaywrightOpenTabStalePage(s, u, navOk) ==
  IF ~CanNewPage(s) THEN Fail(s, "Engine", NoPage, FALSE)
  ELSE
    LET s1      == NewPage(s)
        newPage == Len(s1.url)
        s2      == [s1 EXCEPT !.tabs = Append(@, newPage)]
        s3      == [s2 EXCEPT !.currentTab = Len(s2.tabs) - 1]
    IN  IF u # NoUrl THEN PageGoto(s3, s3.page, u, navOk)
        ELSE Ok(s3, Undefined, NoPage, FALSE)

\* Variant: openTab that drops the new tab when its navigation fails.
PlaywrightOpenTabRollsBack(s, u, navOk) ==
  IF ~CanNewPage(s) THEN Fail(s, "Engine", NoPage, FALSE)
  ELSE
    LET s1      == NewPage(s)
        newPage == Len(s1.url)
        s2      == [s1 EXCEPT !.tabs = Append(@, newPage)]
        s3      == [s2 EXCEPT !.currentTab = Len(s2.tabs) - 1]
        s4      == [s3 EXCEPT !.page = newPage]
        nav     == PageGoto(s4, s4.page, u, navOk)
    IN  IF u # NoUrl
        THEN IF nav.ok THEN nav
             ELSE Fail([s1 EXCEPT !.closed[newPage] = TRUE], nav.err,
                       nav.target, FALSE)
        ELSE Ok(s4, Undefined, NoPage, FALSE)

PlaywrightOpenTab(s, u, navOk) ==
  IF ~CanNewPage(s) THEN Fail(s, "Engine", NoPage, FALSE)
  ELSE
    LET s1      == NewPage(s)
        newPage == Len(s1.url)
        s2      == [s1 EXCEPT !.tabs = Append(@, newPage)]
        s3      == [s2 EXCEPT !.currentTab = Len(s2.tabs) - 1]
        s4      == [s3 EXCEPT !.page = newPage]
    IN  IF u # NoUrl THEN PageGoto(s4, s4.page, u, navOk)
        ELSE Ok(s4, Undefined, NoPage, FALSE)

\* Variant: closeTab that does not reset currentTab after the splice.
PlaywrightCloseTabKeepIndex(s, closeOk) ==
  LET c == PageClose(s, s.page, closeOk)
  IN  IF ~c.ok THEN c
      ELSE
        LET s1 == IF Len(c.s.tabs) = 0
                  THEN BrowserClose(ContextClose(c.s)) ELSE c.s
            s2 == [s1 EXCEPT !.tabs = Splice1(@, s1.currentTab)]
            s4 == [s2 EXCEPT !.page = At(s2.tabs, s2.currentTab)]
        IN  Ok(s4, Undefined, c.target, Len(s2.tabs) = 0)

PlaywrightCloseTab(s, closeOk) ==
  LET c == PageClose(s, s.page, closeOk)
  IN  IF ~c.ok THEN c
      ELSE
        LET s1 == IF Len(c.s.tabs) = 0
                  THEN BrowserClose(ContextClose(c.s)) ELSE c.s
            s2 == [s1 EXCEPT !.tabs = Splice1(@, s1.currentTab)]
            s3 == [s2 EXCEPT !.currentTab = Len(s2.tabs) - 1]
            s4 == [s3 EXCEPT !.page = At(s3.tabs, s3.currentTab)]
        IN  Ok(s4, Undefined, c.target, Len(s3.tabs) = 0)

PlaywrightSwitchToTab(s, tabNumber) ==
  IF tabNumber < 0 \/ tabNumber > Len(s.tabs) - 1
  THEN Fail(s, "TabNotFound", NoPage, FALSE)
  ELSE LET s1 == [s EXCEPT !.currentTab = tabNumber]
       IN  Ok([s1 EXCEPT !.page = At(s1.tabs, s1.currentTab)],
              Undefined, NoPage, FALSE)

----------------------------------------------------------------------------
(* PuppeteerBrowser: the callbacks its methods hand to safeRun.            *)

PuppeteerNavigateTo(s, u, navOk) == PageGoto(s, s.page, u, navOk)

PuppeteerGetUrl(s) == PageUrl(s, s.page)

\* Variant: a range check that admits tabNumber = tabs.length.
PuppeteerSwitchToTabOffByOne(s, tabNumber) ==
  IF tabNumber < 0 \/ tabNumber > Len(s.tabs)
  THEN Fail(s, "TabNotFound", NoPage, FALSE)
  ELSE LET s1 == [s EXCEPT !.currentTab = tabNumber]
       IN  Ok([s1 EXCEPT !.page = At(s1.tabs, s1.currentTab)],
              Undefined, NoPage, FALSE)

PuppeteerSwitchToTab(s, tabNumber) ==
  IF tabNumber < 0 \/ tabNumber > Len(s.tabs) - 1
  THEN Fail(s, "TabNotFound", NoPage, FALSE)
  ELSE LET s1 == [s EXCEPT !.currentTab = tabNumber]
       IN  Ok([s1 EXCEPT !.page = At(s1.tabs, s1.currentTab)],
              Undefined, NoPage, FALSE)

PuppeteerCloseBrowser(s) == Ok(BrowserClose(s), Undefined, NoPage, FALSE)

PuppeteerNavigateBack(s, dest, navOk) == PageGoBack(s, s.page, dest, navOk)

PuppeteerNavigateForward(s, dest, navOk) ==
  PageGoForward(s, s.page, dest, navOk)

PuppeteerRefresh(s, navOk) == PageReload(s, s.page, navOk)

\* The navigation of openTab is a nested this.navigateTo(url): it runs under
\* the session's own options (sessionOptions), on this.page.
PuppeteerOpenTab(s, u, navOk, sessionOptions) ==
  IF ~CanNewPage(s) THEN Fail(s, "Engine", NoPage, FALSE)
  ELSE
    LET s1      == NewPage(s)
        newPage == Len(s1.url)
        s2      == [s1 EXCEPT !.tabs = Append(@, newPage)]
        s3      == [s2 EXCEPT !.currentTab = Len(s2.tabs) - 1]
        nav     == safeRun(sessionOptions, PuppeteerNavigateTo(s3, u, navOk))
    IN  IF u # NoUrl
        THEN IF nav.raised THEN Fail(nav.s, nav.err, nav.target, FALSE)
             ELSE Ok(nav.s, Undefined, nav.target, FALSE)
        ELSE Ok(s3, Undefined, NoPage, FALSE)

\* Variant: closeTab that removes the first tab instead of the closed one.
PuppeteerCloseTabFirst(s, closeOk) ==
  LET c == PageClose(s, At(s.tabs, s.currentTab), closeOk)
  IN  IF ~c.ok THEN [c EXCEPT !.idxEmpty = (Len(s.tabs) = 0)]
      ELSE
        LET s1 == [c.s EXCEPT !.tabs = Splice1(@, 0)]
            s2 == [s1 EXCEPT !.currentTab = Len(s1.tabs) - 1]
        IN  Ok(s2, Undefined, c.target, Len(s.tabs) = 0)

PuppeteerCloseTab(s, closeOk) ==
  LET c == PageClose(s, At(s.tabs, s.currentTab), closeOk)
  IN  IF ~c.ok THEN [c EXCEPT !.idxEmpty = (Len(s.tabs) = 0)]
      ELSE
        LET s1 == [c.s EXCEPT !.tabs = Splice1(@, c.s.currentTab)]
            s2 == [s1 EXCEPT !.currentTab = Len(s1.tabs) - 1]
        IN  Ok(s2, Undefined, c.target, Len(s.tabs) = 0)

PuppeteerSwitchTab(s, tabNumber) ==
  Ok([s EXCEPT !.currentTab = tabNumber], Undefined, NoPage, FALSE)

----------------------------------------------------------------------------
(* Scenarios: call sequences, from init() on, that `trace` follows.        *)

Label(op, u, tabNumber) == [op |-> op, url |-> u, tabNumber |-> tabNumber]

\* navigateTo(A), openTab(B), getUrl(), switchToTab(0), getUrl()
ScenarioUrls ==
  << Label("navigateTo", "A", NoTab), Label("openTab", "B", NoTab),
     Label("getUrl", NoUrl, NoTab), Label("switchToTab", NoUrl, 0),
     Label("getUrl", NoUrl, NoTab) >>

\* openTab(), openTab(), closeTab(), closeTab()
ScenarioOpenClose ==
  << Label("openTab", NoUrl, NoTab), Label("openTab", NoUrl, NoTab),
     Label("closeTab", NoUrl, NoTab), Label("closeTab", NoUrl, NoTab) >>

Scenarios == {ScenarioUrls, ScenarioOpenClose}

OffScript == << Label("off", NoUrl, NoTab) >>

IsPrefix(a, b) == Len(a) <= Len(b) /\ SubSeq(b, 1, Len(a)) = a

\* A call that failed, or that no scenario continues with, leaves them all.
Track(tr, label, failed) ==
  IF ~failed /\ \E sc \in Scenarios : IsPrefix(Append(tr, label), sc)
  THEN Append(tr, label) ELSE OffScript

----------------------------------------------------------------------------
(* The state machine.                                                      *)

defaultConfig ==
  [browser |-> "chromium", headless |-> TRUE, actionTimeout |-> 5000,
   logs |-> TRUE, throwOnFail |-> TRUE]

\* configOverrides(): defaultConfig overlaid by the project's config, which
\* is taken to override nothing.  Both failure policies are still exercised,
\* through the options of each call (CallOptions).
Configs == {defaultConfig}

\* No Element has been made, no call on an Element has returned.
NoScope == [sel |-> "", nth |-> -1]
\* made is how the Element was obtained: by browser.selector, by nth(index),
\* by selector(sel) of another Element, or as the child of an iteration.
NoElement ==
  [sel |-> "", nth |-> -1, handle |-> 0, locator |-> "none",
   scope |-> NoScope, page |-> NoPage, made |-> [by |-> "none", index |-> -1]]
NoArgument == -1
NoTwin == [op |-> "none"]
\* A call site that is not inside a call, and a session with none suspended.
Idle == [at |-> "idle", page |-> NoPage, url |-> NoUrl, ok |-> TRUE,
         err |-> "none"]
NoSites == [openTab |-> Idle, closeTab |-> Idle]
NoCall ==
  [op |-> "none", options |-> NoOptions, used |-> NoOptions,
   wrapped |-> FALSE, events |-> << >>, first |-> "none", firstValue |-> -1,
   failed |-> FALSE, raised |-> FALSE, err |-> "none",
   returned |-> "undefined", value |-> -1, timeoutArg |-> NoArgument,
   lastCount |-> -1, removedSince |-> 0, prevCount |-> -1,
   prevRemoved |-> 0, visits |-> << >>,
   snapshot |-> << >>, result |-> << >>, target |-> 0, onPage |-> NoPage]

\* The state init() returns: one context, one page, tabs = [page].
Init ==
  /\ backend \in Backends
  /\ config \in Configs
  /\ tabs = << 1 >>
  /\ currentTab = 0
  /\ page = 1
  /\ url = << Blank >>
  /\ closed = << FALSE >>
  /\ contextOpen = TRUE
  /\ browserOpen = TRUE
  /\ lastCall = [op |-> "init", url |-> NoUrl, tabNumber |-> NoTab,
                 failed |-> FALSE, err |-> "none", raised |-> FALSE,
                 value |-> Undefined, target |-> NoPage, idxEmpty |-> FALSE]
  /\ trace = << >>
  /\ projectConfig = NoOptions
  /\ dom = << >>
  /\ elem = NoElement
  /\ ecall = NoCall
  /\ twin = NoTwin
  /\ sites = NoSites

\* this.actionOptions, set by the constructor.
actionOptions == getActionOptionsFromConfig(config)

\* The options a method passes to safeRun.
Merged(options) == Spread(actionOptions, options)

\* A public call returned (or raised) with outcome out.
SessionCall(op, u, tabNumber, out) ==
  /\ tabs' = out.s.tabs
  /\ currentTab' = out.s.currentTab
  /\ page' = out.s.page
  /\ url' = out.s.url
  /\ closed' = out.s.closed
  /\ contextOpen' = out.s.contextOpen
  /\ browserOpen' = out.s.browserOpen
  /\ lastCall' = [op |-> op, url |-> u, tabNumber |-> tabNumber,
                  failed |-> out.failed, err |-> out.err,
                  raised |-> out.raised, value |-> out.value,
                  target |-> out.target, idxEmpty |-> out.idxEmpty]
  /\ trace' = Track(trace, Label(op, u, tabNumber), out.failed)
  /\ UNCHANGED <<backend, config, projectConfig, dom, elem, ecall>>

\* A public call on the one session of the run.
Call(op, u, tabNumber, out) ==
  /\ SessionCall(op, u, tabNumber, out)
  /\ UNCHANGED <<sites, twin>>

\* The caller makes no call on a session whose process is released:
\* closeBrowser is its last call.
Usable == browserOpen

NavigateTo ==
  /\ Usable
  /\ \E u \in URLs, options \in CallOptions, navOk \in BOOLEAN :
       Call("navigateTo", u, NoTab,
            safeRun(Merged(options),
                    IF backend = "playwright"
                    THEN PlaywrightNavigateTo(S, u, navOk)
                    ELSE PuppeteerNavigateTo(S, u, navOk)))

GetUrl ==
  /\ Usable
  /\ \E options \in CallOptions :
       Call("getUrl", NoUrl, NoTab,
            safeRun(Merged(options),
                    IF backend = "playwright" THEN PlaywrightGetUrl(S)
                    ELSE PuppeteerGetUrl(S)))

CloseBrowser ==
  /\ Usable
  /\ \E options \in CallOptions :
       Call("closeBrowser", NoUrl, NoTab,
            safeRun(Merged(options),
                    IF backend = "playwright" THEN PlaywrightCloseBrowser(S)
                    ELSE PuppeteerCloseBrowser(S)))

NavigateBack ==
  /\ Usable
  /\ \E dest \in URLs \cup {Blank}, options \in CallOptions, navOk \in BOOLEAN :
       Call("navigateBack", NoUrl, NoTab,
            safeRun(Merged(options),
                    IF backend = "playwright"
                    THEN PlaywrightNavigateBack(S, dest, navOk)
                    ELSE PuppeteerNavigateBack(S, dest, navOk)))

NavigateForward ==
  /\ Usable
  /\ \E dest \in URLs \cup {Blank}, options \in CallOptions, navOk \in BOOLEAN :
       Call("navigateForward", NoUrl, NoTab,
            safeRun(Merged(options),
                    IF backend = "playwright"
                    THEN PlaywrightNavigateForward(S, dest, navOk)
                    ELSE PuppeteerNavigateForward(S, dest, navOk)))

Refresh ==
  /\ Usable
  /\ \E options \in CallOptions, navOk \in BOOLEAN :
       Call("refresh", NoUrl, NoTab,
            safeRun(Merged(options),
                    IF backend = "playwright" THEN PlaywrightRefresh(S, navOk)
                    ELSE PuppeteerRefresh(S, navOk)))

\* The context creates at most MaxPages pages in a run.
OpenTab ==
  /\ Usable
  /\ Len(url) < MaxPages
  /\ \E u \in URLs \cup {NoUrl}, options \in CallOptions, navOk \in BOOLEAN :
       Call("openTab", u, NoTab,
            safeRun(Merged(options),
                    IF backend = "playwright" THEN PlaywrightOpenTab(S, u, navOk)
                    ELSE PuppeteerOpenTab(S, u, navOk, actionOptions)))

CloseTab ==
  /\ Usable
  /\ \E options \in CallOptions, closeOk \in BOOLEAN :
       Call("closeTab", NoUrl, NoTab,
            safeRun(Merged(options),
                    IF backend = "playwright" THEN PlaywrightCloseTab(S, closeOk)
                    ELSE PuppeteerCloseTab(S, closeOk)))

SwitchToTab ==
  /\ Usable
  /\ \E tabNumber \in TabNumbers, options \in CallOptions :
       Call("switchToTab", NoUrl, tabNumber,
            safeRun(Merged(options),
                    IF backend = "playwright"
                    THEN PlaywrightSwitchToTab(S, tabNumber)
                    ELSE PuppeteerSwitchToTab(S, tabNumber)))

\* PuppeteerBrowser only: the second tab-switching method.
SwitchTab ==
  /\ Usable
  /\ backend = "puppeteer"
  /\ \E tabNumber \in TabNumbers, options \in CallOptions :
       Call("switchTab", NoUrl, tabNumber,
            safeRun(Merged(options), PuppeteerSwitchTab(S, tabNumber)))

\* The tab lifecycle of the IBaseBrowser interface, with navigateTo and
\* getUrl to tell the tabs apart.
Next ==
  \/ NavigateTo
  \/ GetUrl
  \/ CloseBrowser
  \/ OpenTab
  \/ CloseTab
  \/ SwitchToTab

Spec == Init /\ [][Next]_vars

\* ... with the history operations of the interface.
NextNav == Next \/ NavigateBack \/ NavigateForward \/ Refresh

SpecNav == Init /\ [][NextNav]_vars

\* The tab lifecycle with switchTab, which only PuppeteerBrowser has.
NextAll == Next \/ SwitchTab

SpecAll == Init /\ [][NextAll]_vars

----------------------------------------------------------------------------
TypeOK ==
  /\ backend \in Backends
  /\ config \in Configs
  /\ tabs \in Seq(1 .. MaxPages)
  /\ currentTab \in -1 .. MaxPages
  /\ page \in 0 .. MaxPages
  /\ Len(url) = Len(closed)
  /\ Len(url) \in 1 .. MaxPages

----------------------------------------------------------------------------
(* Properties of the tab lifecycle.                                        *)

\* C1: after any sequence of openTab, closeTab and switchToTab, in both
\* backends, 0 <= currentTab < len(tabs) whenever tabs is non-empty.
TabIndexInRange ==
  tabs # << >> => (0 <= currentTab /\ currentTab < Len(tabs))

\* A closeTab that left two tabs, the last of them current.
TabIndexInRangeWitness ==
  /\ lastCall.op = "closeTab" /\ ~lastCall.failed
  /\ Len(tabs) = 2 /\ currentTab = 1

\* C2: when closeTab() closes the only remaining tab, the browsing context
\* and the browser process are both released as part of that call.
CloseLastTabReleases ==
  [][(lastCall'.op = "closeTab" /\ Len(tabs) = 1 /\ tabs' = << >>)
       => (~contextOpen' /\ ~browserOpen')]_vars

\* C3: closeTab() on a session with exactly one tab does not read
\* tabs[currentTab] with tabs empty, and does not leave currentTab at -1 with
\* the current page taken from the empty list.
CloseLastTabNoEmptyIndex ==
  [][(lastCall'.op = "closeTab" /\ Len(tabs) = 1 /\ ~lastCall'.failed)
       => (~lastCall'.idxEmpty /\ ~(currentTab' = -1 /\ page' = NoPage))]_vars

\* C4: once tabs is empty the session is terminal: every later operation
\* fails and tabs never becomes non-empty again.
EmptyIsTerminal ==
  [][tabs = << >> => (tabs' = << >> /\ lastCall'.failed)]_vars

\* C5: in a session of the backend selector (a PlaywrightBrowser), getUrl()
\* returns the URL of tabs[currentTab]; after navigateTo(A), openTab(B) it
\* returns B, and after a following switchToTab(0) it returns A.
GetUrlReadsCurrentTab ==
  backend = "playwright" =>
    /\ (lastCall.op = "getUrl" /\ ~lastCall.failed)
         => (tabs # << >> /\ lastCall.value = url[At(tabs, currentTab)])
    /\ trace = SubSeq(ScenarioUrls, 1, 3) => lastCall.value = "B"
    /\ trace = ScenarioUrls => lastCall.value = "A"

\* The whole scenario has run on a PlaywrightBrowser.
GetUrlReadsCurrentTabWitness ==
  backend = "playwright" /\ trace = ScenarioUrls

\* C6: navigateTo, navigateBack, navigateForward, refresh and getUrl act on
\* tabs[currentTab] and leave the URL of every other tab unchanged, in both
\* backends.
NavOps == {"navigateTo", "navigateBack", "navigateForward", "refresh", "getUrl"}
NavigationOnCurrentTab ==
  [][(lastCall'.op \in NavOps /\ tabs # << >>)
       => /\ lastCall'.target = At(tabs, currentTab)
          /\ \A p \in DOMAIN url :
               p # At(tabs, currentTab) => url'[p] = url[p]]_vars

\* C7: closeTab() closes the tab at currentTab, removes exactly that tab
\* (the others keep their order) and makes the last remaining tab current.
CloseTabSelectsLast ==
  [][(lastCall'.op = "closeTab" /\ ~lastCall'.failed)
       => /\ closed'[At(tabs, currentTab)]
          /\ tabs' = SubSeq(tabs, 1, currentTab)
                       \o SubSeq(tabs, currentTab + 2, Len(tabs))
          /\ tabs' # << >>
               => (currentTab' = Len(tabs') - 1 /\ page' = tabs'[Len(tabs')])
     ]_vars

\* C8: from a fresh session, openTab() twice then closeTab() twice leaves
\* exactly the original tab, current, and the session open.
OpenTwiceCloseTwice ==
  trace = ScenarioOpenClose
    => /\ tabs = << 1 >> /\ currentTab = 0 /\ page = 1
       /\ ~closed[1] /\ contextOpen /\ browserOpen

\* The scenario has run to its end.
OpenTwiceCloseTwiceWitness ==
  trace = ScenarioOpenClose /\ lastCall.op = "closeTab"

\* C9: switchToTab(i) fails with the tab-not-found error iff i is outside
\* [0, len(tabs)-1]; otherwise currentTab becomes i and tabs[i] the page
\* that operations act on.
SwitchToTabChecksRange ==
  [][lastCall'.op = "switchToTab"
       => LET i == lastCall'.tabNumber
          IN  /\ (lastCall'.failed /\ lastCall'.err = "TabNotFound")
                   <=> (i < 0 \/ i > Len(tabs) - 1)
              /\ (0 <= i /\ i <= Len(tabs) - 1)
                   => (currentTab' = i /\ page' = tabs[i + 1] /\ tabs' = tabs)
     ]_vars

\* A switch away from the last tab of three took effect.
SwitchToTabChecksRangeWitness ==
  /\ lastCall.op = "switchToTab" /\ ~lastCall.failed
  /\ Len(tabs) = 3 /\ currentTab = 0 /\ page = tabs[1]

\* C10: openTab(url?) appends exactly one new tab at the end and makes it
\* current; every earlier tab keeps its index.
OpenTabAppendsCurrent ==
  [][lastCall'.op = "openTab"
       => /\ Len(tabs') = Len(tabs) + 1
          /\ SubSeq(tabs', 1, Len(tabs)) = tabs
          /\ \A i \in 1 .. Len(tabs) : tabs[i] # tabs'[Len(tabs')]
          /\ currentTab' = Len(tabs') - 1
          /\ page' = tabs'[Len(tabs')]]_vars

----------------------------------------------------------------------------
(* Elements: the page's nodes, the selectors, and the Element classes.     *)

MaxNodes == 3
NoNode == 0

\* The page under test: MaxNodes nodes, in document order.
AllNodes == [i \in 1 .. MaxNodes |-> i]

\* "item" matches every node of the page, "missing" matches none.
Selectors == {"item", "missing"}
Matches(d, sel) == IF sel = "item" THEN d ELSE << >>

\* The page's tree: the last node lies inside the one before it, the
\* others are top-level.  A node that is removed leaves its children in
\* place.
Parent(n) == IF n = MaxNodes /\ n > 1 THEN n - 1 ELSE NoNode
RECURSIVE Ancestors(_)
Ancestors(n) ==
  IF Parent(n) = NoNode THEN {} ELSE {Parent(n)} \cup Ancestors(Parent(n))

\* The nodes a recipe [sel, nth] denotes: all matches, or the nth one.
Denoted(d, sel, nth) ==
  LET m == Matches(d, sel)
  IN  IF nth < 0 THEN m
      ELSE IF At(m, nth) = NoNode THEN << >> ELSE << At(m, nth) >>

\* The matches of a lazy locator: those of sel in the page, or, for
\* locator.locator(sel), those of sel below a node its scope denotes.
LocatorMatches(d, e) ==
  IF e.scope = NoScope THEN Matches(d, e.sel)
  ELSE LET within == Denoted(d, e.scope.sel, e.scope.nth)
       IN  SelectSeq(Matches(d, e.sel),
                     LAMBDA n : \E k \in 1 .. Len(within) :
                                  within[k] \in Ancestors(n))

\* d without node n.
Without(d, n) == SelectSeq(d, LAMBDA x : x # n)

\* configOverrides(): the project's config laid over defaultConfig.
configOverrides(pc) == Spread(defaultConfig, pc)
ProjectConfigs ==
  {NoOptions, [throwOnFail |-> FALSE], [logs |-> FALSE],
   [actionTimeout |-> 1000]}

\* options?: actionOptions of an Element method.
ElementOptions ==
  CallOptions \cup {[log |-> TRUE], [log |-> FALSE], [timeout |-> 100]}

\* { message, ...this.actionOptions, ...options }
WithMessage(message, options) ==
  Spread([message |-> message], Merged(options))

\* What a callback of an Element did: returned (ok) a value or undefined,
\* or threw (err); the timeout argument the engine call was given; the
\* nodes of the page afterwards; for an iteration, the callbacks it made;
\* the node and the page it acted on.
Returned(value, d) ==
  [ok |-> TRUE, err |-> "none", returned |-> "value", value |-> value,
   timeoutArg |-> NoArgument, dom |-> d, visits |-> << >>,
   snapshot |-> << >>, result |-> << >>, target |-> NoNode,
   onPage |-> NoPage]
ReturnedVoid(d) ==
  [ok |-> TRUE, err |-> "none", returned |-> "undefined", value |-> -1,
   timeoutArg |-> NoArgument, dom |-> d, visits |-> << >>,
   snapshot |-> << >>, result |-> << >>, target |-> NoNode,
   onPage |-> NoPage]
Threw(err, d) ==
  [ok |-> FALSE, err |-> err, returned |-> "undefined", value |-> -1,
   timeoutArg |-> NoArgument, dom |-> d, visits |-> << >>,
   snapshot |-> << >>, result |-> << >>, target |-> NoNode,
   onPage |-> NoPage]

\* browser.selector(sel) with this.page = p.  Playwright: a lazy locator of
\* p.  Puppeteer: a lazy locator of p, page.$(sel) (the handle of the first
\* match at that moment), p itself and the selector string.
PlaywrightSelect(d, sel, p) ==
  [sel |-> sel, nth |-> -1, handle |-> NoNode, locator |-> "lazy",
   scope |-> NoScope, page |-> p,
   made |-> [by |-> "selector", index |-> -1]]
PuppeteerSelect(d, sel, p) ==
  [sel |-> sel, nth |-> -1, handle |-> At(Matches(d, sel), 0),
   locator |-> "lazy", scope |-> NoScope, page |-> p,
   made |-> [by |-> "selector", index |-> -1]]

\* safeRun that rethrows every failure.
safeRunStepsRethrows(options, attempts) ==
  LET r == attempts[1]
  IN  [events |->
         (IF options.log THEN << [e |-> "log", text |-> options.message] >>
                         ELSE << >>)
         \o << [e |-> "callBack", text |-> ""] >>,
       failed |-> ~r.ok, err |-> r.err,
       raised |-> ~r.ok,
       returned |-> IF r.ok THEN r.returned ELSE "undefined",
       value |-> IF r.ok THEN r.value ELSE -1,
       timeoutArg |-> r.timeoutArg, dom |-> r.dom,
       visits |-> r.visits, snapshot |-> r.snapshot,
       result |-> IF r.ok THEN r.result ELSE << >>,
       target |-> r.target, onPage |-> r.onPage]

\* safeRun that invokes callBack again after a failure.
safeRunStepsRetries(options, attempts) ==
  LET r == IF attempts[1].ok THEN attempts[1] ELSE attempts[2]
  IN  [events |->
         (IF options.log THEN << [e |-> "log", text |-> options.message] >>
                         ELSE << >>)
         \o << [e |-> "callBack", text |-> ""] >>
         \o (IF ~attempts[1].ok
               THEN << [e |-> "callBack", text |-> ""] >> ELSE << >>)
         \o (IF ~r.ok /\ ~options.throwOnFail
               THEN << [e |-> "log", text |-> r.err] >> ELSE << >>),
       failed |-> ~r.ok, err |-> r.err,
       raised |-> ~r.ok /\ options.throwOnFail,
       returned |-> IF r.ok THEN r.returned ELSE "undefined",
       value |-> IF r.ok THEN r.value ELSE -1,
       timeoutArg |-> r.timeoutArg, dom |-> r.dom,
       visits |-> r.visits, snapshot |-> r.snapshot,
       result |-> IF r.ok THEN r.result ELSE << >>,
       target |-> r.target, onPage |-> r.onPage]

\* safeRun whose logging decides whether a failure is rethrown.
safeRunStepsLogSwallows(options, attempts) ==
  LET r == attempts[1]
  IN  [events |->
         (IF options.log THEN << [e |-> "log", text |-> options.message] >>
                         ELSE << >>)
         \o << [e |-> "callBack", text |-> ""] >>
         \o (IF ~r.ok /\ options.log
               THEN << [e |-> "log", text |-> r.err] >> ELSE << >>),
       failed |-> ~r.ok, err |-> r.err,
       raised |-> ~r.ok /\ options.throwOnFail /\ ~options.log,
       returned |-> IF r.ok THEN r.returned ELSE "undefined",
       value |-> IF r.ok THEN r.value ELSE -1,
       timeoutArg |-> r.timeoutArg, dom |-> r.dom,
       visits |-> r.visits, snapshot |-> r.snapshot,
       result |-> IF r.ok THEN r.result ELSE << >>,
       target |-> r.target, onPage |-> r.onPage]

\* safeRun(options, callBack), step by step.  attempts[k] is what the k-th
\* invocation of callBack would do; the code invokes it once.  The events
\* are the console lines and the invocations, in order.
safeRunSteps(options, attempts) ==
  LET r == attempts[1]
  IN  [events |->
         (IF options.log THEN << [e |-> "log", text |-> options.message] >>
                         ELSE << >>)
         \o << [e |-> "callBack", text |-> ""] >>
         \o (IF ~r.ok /\ ~options.throwOnFail
               THEN << [e |-> "log", text |-> r.err] >> ELSE << >>),
       failed |-> ~r.ok, err |-> r.err,
       raised |-> ~r.ok /\ options.throwOnFail,
       returned |-> IF r.ok THEN r.returned ELSE "undefined",
       value |-> IF r.ok THEN r.value ELSE -1,
       timeoutArg |-> r.timeoutArg, dom |-> r.dom,
       visits |-> r.visits, snapshot |-> r.snapshot,
       result |-> IF r.ok THEN r.result ELSE << >>,
       target |-> r.target, onPage |-> r.onPage]

\* this.locator.click() of Playwright: no argument.  The locator is strict
\* and waits for its node until the engine's own timeout.
PlaywrightClick(d, e, engineOk) ==
  LET m == LocatorMatches(d, e)
      r == IF e.nth < 0 /\ Len(m) > 1 THEN Threw("strict mode violation", d)
           ELSE IF At(m, Max(e.nth, 0)) = NoNode THEN Threw("TimeoutError", d)
           ELSE IF ~engineOk THEN Threw("engine", d)
           ELSE [ReturnedVoid(d) EXCEPT !.target = At(m, Max(e.nth, 0))]
  IN  [r EXCEPT !.onPage = e.page]

\* this.locator.click() of Puppeteer: no argument.  A lazy locator acts on
\* the first match; a Promise in place of the locator has no click.
PuppeteerClick(d, e, engineOk) ==
  IF e.locator = "promise" THEN Threw("TypeError", d)
  ELSE LET m == LocatorMatches(d, e)
           r == IF At(m, 0) = NoNode THEN Threw("TimeoutError", d)
                ELSE IF ~engineOk THEN Threw("engine", d)
                ELSE [ReturnedVoid(d) EXCEPT !.target = At(m, 0)]
       IN  [r EXCEPT !.onPage = e.page]

\* this.locator.count() / (await this.page.$$(sel)).length
PlaywrightCount(d, e, engineOk) ==
  LET m == LocatorMatches(d, e)
      r == IF ~engineOk THEN Threw("engine", d)
           ELSE IF e.nth < 0 THEN Returned(Len(m), d)
           ELSE Returned(IF At(m, e.nth) = NoNode THEN 0 ELSE 1, d)
  IN  [r EXCEPT !.onPage = e.page]
\* A count that answers with the matches the page had when it was loaded.
PuppeteerCountAtLoad(d, e, engineOk) ==
  LET r == IF ~engineOk THEN Threw("engine", d)
           ELSE Returned(Len(Matches(AllNodes, e.sel)), d)
  IN  [r EXCEPT !.onPage = e.page]
PuppeteerCount(d, e, engineOk) ==
  LET r == IF ~engineOk THEN Threw("engine", d)
           ELSE Returned(Len(Matches(d, e.sel)), d)
  IN  [r EXCEPT !.onPage = e.page]

\* The state from which Elements are exercised: init() has returned with
\* the resolved configuration, and the page holds AllNodes.
InitElem ==
  /\ backend \in Backends
  /\ projectConfig \in ProjectConfigs
  /\ config = configOverrides(projectConfig)
  /\ tabs = << 1 >>
  /\ currentTab = 0
  /\ page = 1
  /\ url = << Blank >>
  /\ closed = << FALSE >>
  /\ contextOpen = TRUE
  /\ browserOpen = TRUE
  /\ lastCall = [op |-> "init", url |-> NoUrl, tabNumber |-> NoTab,
                 failed |-> FALSE, err |-> "none", raised |-> FALSE,
                 value |-> Undefined, target |-> NoPage,
                 idxEmpty |-> FALSE]
  /\ trace = << >>
  /\ dom = AllNodes
  /\ elem = NoElement
  /\ ecall = NoCall
  /\ twin = NoTwin
  /\ sites = NoSites

\* A call on the Element returned (or raised).  used are the options handed
\* to safeRun when the method is wrapped in it.  lastCount is what the last
\* count() of this Element returned and removedSince the matching nodes
\* removed from the page since; a count() keeps the pair it found as
\* prevCount and prevRemoved.
ElementCall(op, options, used, wrapped, attempts, out) ==
  /\ ecall' =
       [op |-> op, options |-> options, used |-> used, wrapped |-> wrapped,
        events |-> out.events,
        first |-> IF attempts[1].ok THEN "returned" ELSE "threw",
        firstValue |-> attempts[1].value,
        failed |-> out.failed, raised |-> out.raised, err |-> out.err,
        returned |-> out.returned, value |-> out.value,
        timeoutArg |-> out.timeoutArg,
        lastCount |-> IF op = "count" /\ ~out.failed THEN out.value
                      ELSE ecall.lastCount,
        removedSince |-> IF op = "count" /\ ~out.failed THEN 0
                         ELSE ecall.removedSince
                              + Len(Matches(dom, elem.sel))
                              - Len(Matches(out.dom, elem.sel)),
        prevCount |-> IF op = "count" /\ ~out.failed THEN ecall.lastCount
                      ELSE -1,
        prevRemoved |-> IF op = "count" /\ ~out.failed
                          THEN ecall.removedSince ELSE 0,
        visits |-> out.visits, snapshot |-> out.snapshot,
        result |-> out.result,
        target |-> out.target, onPage |-> out.onPage]
  /\ dom' = out.dom
  /\ UNCHANGED <<sites, twin, backend, config, tabs, currentTab, page, url, closed,
                 contextOpen, browserOpen, lastCall, trace,
                 projectConfig, elem>>

HasElement == elem # NoElement

\* elem = browser.selector(sel), made from this.page.  The tab that is
\* current at that moment, tabs[currentTab], is noted with it.
Selector ==
  /\ Usable
  /\ \E sel \in Selectors :
       LET e == IF backend = "playwright"
                  THEN PlaywrightSelect(dom, sel, page)
                  ELSE PuppeteerSelect(dom, sel, page)
       IN  elem' = [e EXCEPT !.made =
                      [by |-> "selector", index |-> -1,
                       current |-> At(tabs, currentTab)]]
  /\ ecall' = NoCall
  /\ UNCHANGED <<sites, twin, backend, config, tabs, currentTab, page, url, closed,
                 contextOpen, browserOpen, lastCall, trace,
                 projectConfig, dom>>

\* await elem.click(options)
Click ==
  /\ HasElement
  /\ \E options \in ElementOptions, ok1 \in BOOLEAN, ok2 \in BOOLEAN :
       LET used == WithMessage("Clicking on element", options)
           attempts ==
             IF backend = "playwright"
               THEN << PlaywrightClick(dom, elem, ok1),
                       PlaywrightClick(dom, elem, ok2) >>
               ELSE << PuppeteerClick(dom, elem, ok1),
                       PuppeteerClick(dom, elem, ok2) >>
       IN  ElementCall("click", options, used, TRUE, attempts,
                       safeRunSteps(used, attempts))

\* await elem.count(options)
Count ==
  /\ HasElement
  /\ \E options \in ElementOptions, ok1 \in BOOLEAN, ok2 \in BOOLEAN :
       LET used == WithMessage("Counting elements", options)
           attempts ==
             IF backend = "playwright"
               THEN << PlaywrightCount(dom, elem, ok1),
                       PlaywrightCount(dom, elem, ok2) >>
               ELSE << PuppeteerCount(dom, elem, ok1),
                       PuppeteerCount(dom, elem, ok2) >>
       IN  ElementCall("count", options, used, TRUE, attempts,
                       safeRunSteps(used, attempts))

\* The page removes one of its nodes (a script, or the user).
RemoveNode ==
  /\ \E n \in 1 .. MaxNodes :
       /\ \E i \in 1 .. Len(dom) : dom[i] = n
       /\ dom' = Without(dom, n)
       /\ ecall' = [ecall EXCEPT !.removedSince =
                      @ + Len(Matches(dom, elem.sel))
                        - Len(Matches(dom', elem.sel))]
  /\ UNCHANGED <<sites, twin, backend, config, tabs, currentTab, page, url, closed,
                 contextOpen, browserOpen, lastCall, trace,
                 projectConfig, elem>>

----------------------------------------------------------------------------
(* forEach, filter and map.                                                *)

\* What a callback does when it is invoked: resolve true ("keep"), remove
\* the first matching node of the page and resolve false ("remove"), or
\* throw.  plan[i + 1] is the callback of index i, for the n indices the
\* loop can reach.
Behaviours == {"keep", "remove", "throw"}
Plans(n) == [1 .. n -> Behaviours]

\* The node a child refers to when its callback starts.  A lazy locator
\* with nth(i) is resolved against the page then; a handle is the node it
\* was taken from.
Refers(d, child) ==
  IF child.locator = "lazy" THEN At(Matches(d, child.sel), child.nth)
  ELSE child.handle

\* The page after the callback of behaviour b.
AfterCallback(d, sel, b) ==
  IF b = "remove" THEN Without(d, At(Matches(d, sel), 0)) ELSE d

\* new PlaywrightSelector(this.locator.nth(i), this.config)
PlaywrightChild(e, i) ==
  [sel |-> e.sel, nth |-> i, handle |-> NoNode, locator |-> "lazy",
   scope |-> e.scope, page |-> e.page,
   made |-> [by |-> "child", index |-> i]]

\* new PuppeteerSelector(this.page.$(sel), this.config, elements[i], ...)
PuppeteerChild(e, elements, i) ==
  [sel |-> e.sel, nth |-> -1, handle |-> At(elements, i),
   locator |-> "promise", scope |-> NoScope, page |-> e.page,
   made |-> [by |-> "child", index |-> i]]

\* for (let i = 0; i < count; i++) await callback(child, i): the visits so
\* far, the page, and what the loop collected.  Each callback is awaited
\* before the next index, so visit i starts with i callbacks completed.  A
\* visit records the child passed to the callback and whether the callback
\* resolved true; filter pushes the child (Playwright) or the raw handle
\* elements[i] (Puppeteer).
RECURSIVE Loop(_, _, _, _, _, _, _, _)
Loop(op, d, e, elements, count, i, plan, acc) ==
  IF i >= count THEN
    [Returned(-1, d) EXCEPT !.returned =
                              IF op = "forEach" THEN "undefined" ELSE "value",
                            !.visits = acc.visits, !.result = acc.result]
  ELSE
    LET child == IF e.locator = "lazy" /\ elements = << >>
                   THEN PlaywrightChild(e, i)
                   ELSE PuppeteerChild(e, elements, i)
        b == plan[i + 1]
        visit == [index |-> i, node |-> Refers(d, child),
                  completed |-> Len(acc.visits),
                  child |-> child, kept |-> b = "keep"]
        kept == IF elements = << >> THEN child
                ELSE [raw |-> At(elements, i)]
        result == IF op = "filter" /\ b = "keep" THEN acc.result \o << kept >>
                  ELSE IF op = "map" THEN acc.result \o << i >>
                  ELSE acc.result
    IN  IF b = "throw"
          THEN [Threw("callback", d)
                  EXCEPT !.visits = acc.visits \o << visit >>]
          ELSE Loop(op, AfterCallback(d, e.sel, b), e, elements, count,
                    i + 1, plan,
                    [visits |-> acc.visits \o << visit >>,
                     result |-> result])

\* PlaywrightSelector.forEach/filter/map: count = await this.locator.count(),
\* then the loop with children this.locator.nth(i).
PlaywrightIterate(op, d, e, plan, engineOk) ==
  IF ~engineOk THEN Threw("engine", d)
  ELSE [Loop(op, d, e, << >>, Len(Matches(d, e.sel)), 0, plan,
             [visits |-> << >>, result |-> << >>])
          EXCEPT !.snapshot = Matches(d, e.sel)]

\* PuppeteerSelector.forEach/filter/map: elements = await this.page.$$(sel),
\* then the loop with children holding elements[i].
PuppeteerIterate(op, d, e, plan, engineOk) ==
  IF ~engineOk THEN Threw("engine", d)
  ELSE [Loop(op, d, e, Matches(d, e.sel), Len(Matches(d, e.sel)), 0, plan,
             [visits |-> << >>, result |-> << >>])
          EXCEPT !.snapshot = Matches(d, e.sel)]

\* A method that is not wrapped in safeRun: what it does is what the
\* caller sees.
Unwrapped(r) ==
  [events |-> << >>, failed |-> ~r.ok, err |-> r.err, raised |-> ~r.ok,
   returned |-> r.returned, value |-> r.value,
   timeoutArg |-> r.timeoutArg, dom |-> r.dom,
   visits |-> r.visits, snapshot |-> r.snapshot, result |-> r.result,
   target |-> r.target, onPage |-> r.onPage]

\* await elem.forEach/filter/map(callback, options).  The Playwright
\* methods take no options and run outside safeRun.
Iterate(op, message) ==
  /\ HasElement
  /\ \E plan \in Plans(Len(Matches(dom, elem.sel))), ok1 \in BOOLEAN :
       IF backend = "playwright"
         THEN LET r == PlaywrightIterate(op, dom, elem, plan, ok1)
              IN  ElementCall(op, NoOptions, NoOptions, FALSE, << r, r >>,
                              Unwrapped(r))
         ELSE \E options \in CallOptions :
                LET used == WithMessage(message, options)
                    r == PuppeteerIterate(op, dom, elem, plan, ok1)
                IN  ElementCall(op, options, used, TRUE, << r, r >>,
                                safeRunSteps(used, << r, r >>))

ForEach ==
  /\ Usable
  /\ Iterate("forEach", "Iterating over elements")
Filter ==
  /\ Usable
  /\ Iterate("filter", "Filtering elements")
Map ==
  /\ Usable
  /\ Iterate("map", "Mapping elements")

NextElem == Selector \/ Click \/ Count \/ RemoveNode
SpecElem == InitElem /\ [][NextElem]_vars

NextIter == Selector \/ ForEach \/ Filter \/ Map
SpecIter == InitElem /\ [][NextIter]_vars

----------------------------------------------------------------------------
(* Properties of the action policy.                                        *)

\* C11: when the operation run under the action policy fails, the failure
\* propagates to the caller with throwOnFail = true; with throwOnFail =
\* false the call does not raise and returns undefined.  In particular
\* selector("#missing").click() fails, raising in the first case only.
FailurePropagatesIffThrowOnFail ==
  /\ (ecall.wrapped /\ ecall.failed) =>
       IF ecall.used.throwOnFail THEN ecall.raised
       ELSE ~ecall.raised /\ ecall.returned = "undefined"
  /\ (ecall.op = "click" /\ elem.sel = "missing") =>
       /\ ecall.failed
       /\ ecall.raised = ecall.used.throwOnFail

\* selector("#missing").click({throwOnFail: false}) under the default
\* configuration returned undefined.
FailurePropagatesIffThrowOnFailWitness ==
  /\ ecall.op = "click" /\ elem.sel = "missing"
  /\ config.throwOnFail /\ ecall.options = [throwOnFail |-> FALSE]
  /\ ecall.failed /\ ~ecall.raised /\ ecall.returned = "undefined"

\* C12: every Element operation that reaches the backend runs through the
\* action policy, so with throwOnFail = false (session default overlaid by
\* the call site) no operation raises to the caller, count-based iteration
\* (forEach, filter, map) included, in both backends.
NoRaiseWithoutThrowOnFail ==
  (ecall.op # "none" /\ ~Merged(ecall.options).throwOnFail) =>
    ~ecall.raised

\* The number of invocations of the callback among the events of a call.
Invocations(events) ==
  Cardinality({k \in 1 .. Len(events) : events[k].e = "callBack"})

\* C13: the action policy has no automatic retry: each call of safeRun
\* invokes the operation exactly once, whether it succeeds or fails and
\* whatever throwOnFail is, and on success the caller receives exactly the
\* value that single invocation produced.
InvokedExactlyOnce ==
  ecall.wrapped =>
    /\ Invocations(ecall.events) = 1
    /\ ecall.failed = (ecall.first = "threw")
    /\ ~ecall.failed =>
         /\ ecall.value = ecall.firstValue
         /\ ecall.op = "count" => ecall.returned = "value"

\* count() returned the number of matches its one invocation produced.
InvokedExactlyOnceWitness ==
  /\ ecall.op = "count" /\ ecall.first = "returned"
  /\ Invocations(ecall.events) = 1
  /\ ecall.value = Len(dom) /\ ecall.value >= 2

\* The keys of actionOptions, and the key of the configuration each one is
\* taken from by getActionOptionsFromConfig.
PolicyKeys == {"timeout", "log", "throwOnFail"}
ConfigKey(k) ==
  CASE k = "timeout" -> "actionTimeout"
    [] k = "log" -> "logs"
    [] k = "throwOnFail" -> "throwOnFail"

\* The session default of key k: the project's value, else defaultConfig's.
SessionDefault(k) ==
  IF ConfigKey(k) \in DOMAIN projectConfig THEN projectConfig[ConfigKey(k)]
  ELSE defaultConfig[ConfigKey(k)]

\* C14: per-call options are merged so that the call-site value wins: for
\* each of timeout, log and throwOnFail the value an operation uses is the
\* call-site value when the call site supplies the key, otherwise the
\* session default of the resolved configuration, whose own default for
\* throwOnFail is true.
CallSiteOptionWins ==
  ecall.wrapped =>
    /\ \A k \in PolicyKeys :
         ecall.used[k] = IF k \in DOMAIN ecall.options THEN ecall.options[k]
                         ELSE SessionDefault(k)
    /\ (projectConfig = NoOptions /\ ecall.options = NoOptions) =>
         ecall.used.throwOnFail = TRUE

\* A call that gave only a timeout, in a project that set only
\* actionTimeout: the call's timeout is used, the rest are defaultConfig's.
CallSiteOptionWinsWitness ==
  /\ ecall.wrapped
  /\ projectConfig = [actionTimeout |-> 1000]
  /\ ecall.options = [timeout |-> 100]
  /\ ecall.used.timeout = 100
  /\ ecall.used.log = TRUE /\ ecall.used.throwOnFail = TRUE

\* C15: if log is true the action policy emits the message before the
\* operation starts, and logging never alters control flow: what the call
\* returns or raises is fixed by the operation's outcome and throwOnFail
\* alone, so it is the same with log = true and with log = false.
LoggingOnlyObserves ==
  ecall.wrapped =>
    /\ ecall.used.log =>
         /\ ecall.events[1] = [e |-> "log", text |-> ecall.used.message]
         /\ ecall.events[2].e = "callBack"
    /\ ~ecall.used.log => ecall.events[1].e = "callBack"
    /\ ecall.failed = (ecall.first = "threw")
    /\ ecall.raised = (ecall.first = "threw" /\ ecall.used.throwOnFail)
    /\ ecall.value = IF ecall.first = "returned" THEN ecall.firstValue
                     ELSE -1

\* click({log: false}) failed and raised as it would with log = true, and
\* nothing was printed.
LoggingOnlyObservesWitness ==
  /\ ecall.op = "click" /\ ecall.options = [log |-> FALSE]
  /\ config.logs /\ config.throwOnFail
  /\ ecall.first = "threw" /\ ecall.raised
  /\ ecall.events = << [e |-> "callBack", text |-> ""] >>

\* C16: the timeout resolved for a call (session default overlaid by the
\* call-site option) is the timeout argument of the backend call the
\* operation dispatches; safeRun itself runs no watchdog, it returns only
\* after its one invocation of the operation.
TimeoutReachesBackend ==
  (ecall.wrapped /\ ecall.op \in {"click", "count"}) =>
    /\ ecall.timeoutArg = ecall.used.timeout
    /\ Invocations(ecall.events) = 1

----------------------------------------------------------------------------
(* init().                                                                 *)

\* config.browser: the values of baseConfig's type, and one outside it.
Recognised == {"chromium", "firefox", "webkit"}
Browsers == Recognised \cup {"edge"}
InitConfigs ==
  {[browser |-> b] : b \in Browsers}
    \cup {[browser |-> b, throwOnFail |-> FALSE] : b \in Browsers}

\* Nothing is launched: no process, no context, no page.
Unlaunched ==
  [tabs |-> << >>, currentTab |-> 0, page |-> NoPage, url |-> << >>,
   closed |-> << >>, contextOpen |-> FALSE, browserOpen |-> FALSE]

\* launch(), newContext(), newPage() and the constructor: tabs = [page].
Launched ==
  [NewPage([Unlaunched EXCEPT !.browserOpen = TRUE, !.contextOpen = TRUE])
     EXCEPT !.tabs = << 1 >>, !.currentTab = 0, !.page = 1]

\* What a static method outside safeRun did is what the caller sees.
Direct(r) ==
  [s |-> r.s, failed |-> ~r.ok, err |-> r.err, raised |-> ~r.ok,
   value |-> r.value, target |-> r.target, idxEmpty |-> r.idxEmpty]

\* PlaywrightBrowser.init(): the switch on config.browser throws in its
\* default branch; the launch itself may fail.
PlaywrightInit(c, launchOk) ==
  IF c.browser \notin {"chromium", "firefox", "webkit"}
    THEN Fail(Unlaunched, "not supported", NoPage, FALSE)
  ELSE IF ~launchOk THEN Fail(Unlaunched, "launch", NoPage, FALSE)
  ELSE Ok(Launched, Undefined, NoPage, FALSE)

\* PuppeteerBrowser.init(): puppeteer.launch() whatever config.browser is.
PuppeteerInit(c, launchOk) ==
  IF ~launchOk THEN Fail(Unlaunched, "launch", NoPage, FALSE)
  ELSE Ok(Launched, Undefined, NoPage, FALSE)

\* The program before init(): the configuration is resolved, nothing runs.
InitNew ==
  /\ backend \in Backends
  /\ projectConfig \in InitConfigs
  /\ config = configOverrides(projectConfig)
  /\ tabs = Unlaunched.tabs
  /\ currentTab = Unlaunched.currentTab
  /\ page = Unlaunched.page
  /\ url = Unlaunched.url
  /\ closed = Unlaunched.closed
  /\ contextOpen = Unlaunched.contextOpen
  /\ browserOpen = Unlaunched.browserOpen
  /\ lastCall = [op |-> "new", url |-> NoUrl, tabNumber |-> NoTab,
                 failed |-> FALSE, err |-> "none", raised |-> FALSE,
                 value |-> Undefined, target |-> NoPage,
                 idxEmpty |-> FALSE]
  /\ trace = << >>
  /\ dom = << >>
  /\ elem = NoElement
  /\ ecall = NoCall
  /\ twin = NoTwin
  /\ sites = NoSites

\* browser = await frameworkSelector.<backend>()
InitSession ==
  /\ lastCall.op = "new"
  /\ \E launchOk \in BOOLEAN :
       Call("init", NoUrl, NoTab,
            Direct(IF backend = "playwright"
                     THEN PlaywrightInit(config, launchOk)
                     ELSE PuppeteerInit(config, launchOk)))

NextInit == InitSession \/ NavigateTo \/ GetUrl \/ OpenTab \/ CloseBrowser
SpecInit == InitNew /\ [][NextInit]_vars

\* C17: init() fails with an unsupported-backend error when the configured
\* engine variant is not one of the recognised ones, in every backend and
\* whatever throwOnFail is; when it succeeds the session has exactly one
\* tab, currentTab = 0, and that tab is the page operations act on.
InitRejectsUnknownEngine ==
  lastCall.op = "init" =>
    /\ config.browser \notin Recognised =>
         lastCall.raised /\ lastCall.err = "not supported"
    /\ ~lastCall.failed =>
         Len(tabs) = 1 /\ currentTab = 0 /\ page = tabs[1]

----------------------------------------------------------------------------
(* browser.alert.                                                          *)

AlertOps == {"alert.accept", "alert.dismiss", "alert.getText",
             "alert.sendKeys"}

\* Whether a native dialog opens while the call waits.
Dialogs == {"fires", "none"}

\* An alert callback that threw, and what its wait had given.
AlertFail(s, wait, err) ==
  [r |-> Fail(s, err, s.page, FALSE), wait |-> wait]

\* Playwright: alert = await this.page.waitForEvent("dialog") resolves to
\* the Dialog, or rejects with TimeoutError after the engine's timeout;
\* then alert.accept() / dismiss() / message() / accept(keys).
PlaywrightAlert(s, op, dialog) ==
  IF dialog = "fires"
    THEN [r |-> Ok(s, IF op = "alert.getText" THEN "message" ELSE Undefined,
                   s.page, FALSE),
          wait |-> "dialog"]
    ELSE AlertFail(s, "error", "TimeoutError")

\* Puppeteer: this.waitForEvent("dialog") races a document listener, which
\* resolves to true, against waitForTimeout(30 s), which resolves to
\* undefined.  Neither value has accept, dismiss or message.
waitForEvent(dialog) == IF dialog = "fires" THEN "true" ELSE Undefined
PuppeteerAlert(s, op, dialog) ==
  LET alert == waitForEvent(dialog)
  IN  AlertFail(s, IF alert = Undefined THEN "timedOut" ELSE "event",
                "TypeError")

\* await browser.alert.<op>(options)
Alert(op) ==
  \E options \in CallOptions, dialog \in Dialogs :
    LET a == IF backend = "playwright" THEN PlaywrightAlert(S, op, dialog)
             ELSE PuppeteerAlert(S, op, dialog)
        out == safeRun(Merged(options), a.r)
    IN  /\ lastCall' = [op |-> op, url |-> NoUrl, tabNumber |-> NoTab,
                        failed |-> out.failed, err |-> out.err,
                        raised |-> out.raised, value |-> out.value,
                        target |-> out.target, idxEmpty |-> out.idxEmpty,
                        dialog |-> dialog, wait |-> a.wait]
        /\ trace' = Track(trace, Label(op, NoUrl, NoTab), out.failed)
        /\ UNCHANGED <<sites, twin, backend, config, tabs, currentTab, page, url, closed,
                       contextOpen, browserOpen, projectConfig, dom, elem,
                       ecall>>

AlertAccept ==
  /\ Usable
  /\ Alert("alert.accept")
AlertDismiss ==
  /\ Usable
  /\ Alert("alert.dismiss")
AlertGetText ==
  /\ Usable
  /\ Alert("alert.getText")
AlertSendKeys ==
  /\ Usable
  /\ Alert("alert.sendKeys")

NextAlert ==
  \/ AlertAccept \/ AlertDismiss \/ AlertGetText \/ AlertSendKeys
  \/ NavigateTo \/ OpenTab \/ SwitchToTab
SpecAlert == Init /\ [][NextAlert]_vars

\* C18: alert.accept, alert.dismiss, alert.getText and alert.sendKeys wait
\* for the next dialog with a bounded wait; if no dialog fires in time the
\* wait resolves to a timed-out outcome and not to an error, so the alert
\* call ends without a failure.
AlertTimeoutIsNotFailure ==
  (lastCall.op \in AlertOps /\ lastCall.dialog = "none") =>
    /\ lastCall.wait = "timedOut"
    /\ ~lastCall.failed

----------------------------------------------------------------------------
(* Properties of the collections.                                          *)

\* C19: count() is recomputed on every call and never cached: a call with
\* no DOM mutation since the previous call returns the same value, and a
\* call made after one matching node has been removed returns a value
\* smaller by one (and so on for every node removed in between).
CountIsRecomputed ==
  (ecall.op = "count" /\ ~ecall.failed) =>
    /\ ecall.value = Len(Matches(dom, elem.sel)) + ecall.removedSince
    /\ ecall.prevCount >= 0 =>
         ecall.value = ecall.prevCount - ecall.prevRemoved

\* count() returned 3, one matching node was removed, count() returned 2.
CountIsRecomputedWitness ==
  /\ ecall.op = "count" /\ ~ecall.failed
  /\ ecall.prevCount = 3 /\ ecall.prevRemoved = 1
  /\ ecall.value = 2

IterationOps == {"forEach", "filter", "map"}

\* C20: forEach, filter and map invoke the callback sequentially (index
\* i + 1 starts only after index i has completed), once for each index
\* 0..n-1 in ascending order, where n is count() at invocation time, and
\* the child passed with index i refers to the i-th match in document
\* order at that time, also when a callback changes the matching nodes.
IterationVisitsEachMatch ==
  (ecall.op \in IterationOps /\ ~ecall.failed) =>
    /\ Len(ecall.visits) = Len(ecall.snapshot)
    /\ \A k \in 1 .. Len(ecall.visits) :
         /\ ecall.visits[k].index = k - 1
         /\ ecall.visits[k].completed = k - 1
         /\ ecall.visits[k].node = ecall.snapshot[k]

\* The children passed to the callbacks that resolved true, in visit order.
KeptChildren(visits) ==
  LET kept == SelectSeq(visits, LAMBDA v : v.kept)
  IN  [k \in 1 .. Len(kept) |-> kept[k].child]

\* C21: filter(cb) returns, in document order, exactly the child Elements
\* for which cb resolved true: every item of the result is the Element
\* object that was passed to cb, in both backends.
FilterReturnsKeptChildren ==
  (ecall.op = "filter" /\ ~ecall.failed) =>
    ecall.result = KeptChildren(ecall.visits)

----------------------------------------------------------------------------
(* nth, selector and getText of an Element.                                *)

\* PlaywrightSelector.nth: new PlaywrightSelector(this.locator.nth(index)).
PlaywrightNth(e, index) ==
  [PlaywrightChild(e, index) EXCEPT !.made = [by |-> "nth", index |-> index]]

\* PuppeteerSelector.nth: the locator is the Promise this.page.$(sel) and
\* the handle is (this.page.$$(sel) as any)[index], a property of a Promise:
\* undefined for every index.
PuppeteerNth(e, index) ==
  [sel |-> e.sel, nth |-> -1, handle |-> NoNode, locator |-> "promise",
   scope |-> NoScope, page |-> e.page,
   made |-> [by |-> "nth", index |-> index]]

\* this.locator.innerText() of Playwright; the text of node n is n.
PlaywrightGetText(d, e, engineOk) ==
  LET m == LocatorMatches(d, e)
      n == At(m, Max(e.nth, 0))
      r == IF e.nth < 0 /\ Len(m) > 1 THEN Threw("strict mode violation", d)
           ELSE IF n = NoNode THEN Threw("TimeoutError", d)
           ELSE IF ~engineOk THEN Threw("engine", d)
           ELSE [Returned(n, d) EXCEPT !.target = n]
  IN  [r EXCEPT !.onPage = e.page]

\* (await this.elementHandle).getProperty("innerText") of Puppeteer: the
\* handle keeps denoting its node; null and undefined have no getProperty.
\* The value is the handle's toString(), written here as the node.
PuppeteerGetText(d, e, engineOk) ==
  LET r == IF e.handle = NoNode THEN Threw("TypeError", d)
           ELSE IF ~engineOk THEN Threw("engine", d)
           ELSE [Returned(e.handle, d) EXCEPT !.target = e.handle]
  IN  [r EXCEPT !.onPage = e.page]

\* elem = elem.nth(index): no backend call, nothing can throw.
Nth ==
  /\ HasElement
  /\ elem.made.by = "selector"
  /\ \E index \in 0 .. MaxNodes :
       elem' = IF backend = "playwright" THEN PlaywrightNth(elem, index)
               ELSE PuppeteerNth(elem, index)
  /\ ecall' = [NoCall EXCEPT !.op = "nth"]
  /\ UNCHANGED <<sites, twin, backend, config, tabs, currentTab, page, url, closed,
                 contextOpen, browserOpen, lastCall, trace,
                 projectConfig, dom>>

\* await elem.getText(options)
GetText ==
  /\ HasElement
  /\ \E options \in CallOptions, ok1 \in BOOLEAN, ok2 \in BOOLEAN :
       LET used == WithMessage("Getting text from element", options)
           attempts ==
             IF backend = "playwright"
               THEN << PlaywrightGetText(dom, elem, ok1),
                       PlaywrightGetText(dom, elem, ok2) >>
               ELSE << PuppeteerGetText(dom, elem, ok1),
                       PuppeteerGetText(dom, elem, ok2) >>
       IN  ElementCall("getText", options, used, TRUE, attempts,
                       safeRunSteps(used, attempts))

NextScope == Selector \/ Nth \/ Click \/ GetText \/ RemoveNode
SpecScope == InitElem /\ [][NextScope]_vars

\* C22: nth(i) never fails at call time and returns a child Element scoped
\* to the i-th current match: for an in-range i an operation on the
\* returned Element acts on the i-th match (it can fail only in the
\* engine); for an out-of-range i the operation fails.
NthIsLazyAndScoped ==
  [][/\ ecall'.op = "nth" => ~ecall'.failed
     /\ (/\ ecall'.op \in {"click", "getText"}
         /\ elem'.made.by = "nth"
         /\ elem' = elem /\ dom' = dom) =>
          LET m == Matches(dom, elem.sel)
              i == elem.made.index
          IN  IF i < Len(m)
                THEN /\ ecall'.failed => ecall'.err = "engine"
                     /\ ~ecall'.failed => ecall'.target = m[i + 1]
                ELSE ecall'.failed]_vars

\* PlaywrightSelector.selector: this.locator.locator(selector) composes the
\* two recipes; nothing is asked of the engine.
PlaywrightSubSelect(d, e, sel) ==
  [elem |-> [sel |-> sel, nth |-> -1, handle |-> NoNode,
             locator |-> "lazy",
             scope |-> [sel |-> e.sel, nth |-> e.nth], page |-> e.page,
             made |-> [by |-> "subselector", index |-> -1, of |-> e]],
   queries |-> << >>]

\* PuppeteerSelector.selector: this.page.$(this.selectorString) in the place
\* of the locator, this.page.$(selector) as the handle, and selector as the
\* selector string: both queries go to the page at once, and neither is
\* made below the parent's matches.
PuppeteerSubSelect(d, e, sel) ==
  [elem |-> [sel |-> sel, nth |-> -1, handle |-> At(Matches(d, sel), 0),
             locator |-> "promise", scope |-> NoScope, page |-> e.page,
             made |-> [by |-> "subselector", index |-> -1, of |-> e]],
   queries |-> << [e |-> "query", text |-> e.sel],
                  [e |-> "query", text |-> sel] >>]

\* elem = elem.selector(sel)
SubSelector ==
  /\ HasElement
  /\ elem.made.by \in {"selector", "nth"}
  /\ \E sel \in Selectors :
       LET r == IF backend = "playwright"
                  THEN PlaywrightSubSelect(dom, elem, sel)
                  ELSE PuppeteerSubSelect(dom, elem, sel)
       IN  /\ elem' = r.elem
           /\ ecall' = [NoCall EXCEPT !.op = "selector",
                                      !.events = r.queries]
  /\ UNCHANGED <<sites, twin, backend, config, tabs, currentTab, page, url, closed,
                 contextOpen, browserOpen, lastCall, trace,
                 projectConfig, dom>>

NextSub == Selector \/ Nth \/ SubSelector \/ Count \/ GetText
SpecSub == InitElem /\ [][NextSub]_vars

\* The nodes of d matching sel that lie below a node the recipe of the
\* Element parent denotes.
Below(d, parent, sel) ==
  LET within == Denoted(d, parent.sel,
                        IF parent.made.by = "nth" THEN parent.made.index
                        ELSE -1)
  IN  SelectSeq(Matches(d, sel),
                LAMBDA n : \E k \in 1 .. Len(within) :
                             within[k] \in Ancestors(n))

\* C23: Element.selector(sel) returns a new Element whose matches are the
\* nodes matching sel inside the matches of the Element it was called on,
\* composing the recipe without asking anything of the backend at call
\* time; the Element it was called on is not changed.
SubSelectorScopesToParent ==
  [][/\ (ecall'.op = "selector" /\ elem' # elem) =>
          /\ ecall'.events = << >>
          /\ elem'.made.by = "subselector" /\ elem'.made.of = elem
     /\ (/\ ecall'.op = "count" /\ ~ecall'.failed
         /\ elem'.made.by = "subselector"
         /\ elem' = elem /\ dom' = dom) =>
          ecall'.value = Len(Below(dom, elem.made.of, elem.sel))]_vars

----------------------------------------------------------------------------
(* Further properties of the session.                                      *)

\* C24: closeBrowser() releases both the browsing context and the browser
\* process unconditionally, from any session state (no tab, one tab,
\* several tabs) and whatever throwOnFail is; every page goes with them.
CloseBrowserReleasesAll ==
  lastCall.op = "closeBrowser" =>
    /\ ~lastCall.failed
    /\ ~contextOpen /\ ~browserOpen
    /\ \A p \in 1 .. Len(closed) : closed[p]

\* closeBrowser() on a session with several tabs.
CloseBrowserReleasesAllWitness ==
  /\ lastCall.op = "closeBrowser"
  /\ Len(tabs) >= 2
  /\ ~contextOpen /\ ~browserOpen

----------------------------------------------------------------------------
(* The two backends side by side.                                          *)

\* What the caller saw of a call on the Puppeteer session, and the session
\* it left.
Twin(op, out) ==
  [op |-> op, s |-> out.s, failed |-> out.failed, raised |-> out.raised,
   value |-> out.value, target |-> out.target]

\* init() returned in both: the variables hold the Playwright session, twin
\* the Puppeteer one.
InitBoth ==
  /\ backend = "playwright"
  /\ config \in Configs
  /\ tabs = << 1 >>
  /\ currentTab = 0
  /\ page = 1
  /\ url = << Blank >>
  /\ closed = << FALSE >>
  /\ contextOpen = TRUE
  /\ browserOpen = TRUE
  /\ lastCall = [op |-> "init", url |-> NoUrl, tabNumber |-> NoTab,
                 failed |-> FALSE, err |-> "none", raised |-> FALSE,
                 value |-> Undefined, target |-> NoPage,
                 idxEmpty |-> FALSE]
  /\ trace = << >>
  /\ projectConfig = NoOptions
  /\ dom = << >>
  /\ elem = NoElement
  /\ ecall = NoCall
  /\ twin = [op |-> "init", s |-> Launched, failed |-> FALSE,
             raised |-> FALSE, value |-> Undefined, target |-> NoPage]
  /\ sites = NoSites

\* The same call, without call-site options and with the same answers of
\* the engine, on both sessions.
BothCall(op, u, tabNumber, playwright, puppeteer) ==
  /\ SessionCall(op, u, tabNumber, safeRun(actionOptions, playwright))
  /\ twin' = Twin(op, safeRun(actionOptions, puppeteer))
  /\ UNCHANGED sites

BothNavigateTo ==
  /\ Usable
  /\ \E u \in URLs, navOk \in BOOLEAN :
       BothCall("navigateTo", u, NoTab,
                PlaywrightNavigateTo(S, u, navOk),
                PuppeteerNavigateTo(twin.s, u, navOk))
BothGetUrl ==
  /\ Usable
  /\ BothCall("getUrl", NoUrl, NoTab,
              PlaywrightGetUrl(S), PuppeteerGetUrl(twin.s))
BothOpenTab ==
  /\ Usable
  /\ Len(url) < MaxPages /\ Len(twin.s.url) < MaxPages
  /\ \E u \in URLs \cup {NoUrl}, navOk \in BOOLEAN :
       BothCall("openTab", u, NoTab,
                PlaywrightOpenTab(S, u, navOk),
                PuppeteerOpenTab(twin.s, u, navOk, actionOptions))
BothCloseTab ==
  /\ Usable
  /\ \E closeOk \in BOOLEAN :
       BothCall("closeTab", NoUrl, NoTab,
                PlaywrightCloseTab(S, closeOk),
                PuppeteerCloseTab(twin.s, closeOk))
BothSwitchToTab ==
  /\ Usable
  /\ \E tabNumber \in TabNumbers :
       BothCall("switchToTab", NoUrl, tabNumber,
                PlaywrightSwitchToTab(S, tabNumber),
                PuppeteerSwitchToTab(twin.s, tabNumber))

NextBoth ==
  \/ BothNavigateTo \/ BothGetUrl \/ BothOpenTab \/ BothCloseTab
  \/ BothSwitchToTab
SpecBoth == InitBoth /\ [][NextBoth]_vars

\* C25: the two backends honour the tab lifecycle identically: after every
\* sequence of openTab, closeTab, switchToTab, navigateTo and getUrl applied
\* to both, they have the same tab count and currentTab, the last call
\* acted on the tab of the same index, and getUrl returned the same.
BackendsAgree ==
  /\ Len(tabs) = Len(twin.s.tabs)
  /\ currentTab = twin.s.currentTab
  /\ lastCall.failed = twin.failed
  /\ lastCall.target = twin.target
  /\ lastCall.op = "getUrl" => lastCall.value = twin.value

----------------------------------------------------------------------------
(* openTab and the failure of its navigation.                              *)

\* await browser.openTab(u, options) with a url, under any resolved
\* configuration.  Besides what every call records, the call-site options,
\* the tabs before the call and whether page.goto failed are kept.
OpenTabTo ==
  /\ Usable
  /\ Len(url) < MaxPages
  /\ \E u \in URLs, options \in CallOptions, navOk \in BOOLEAN :
       LET out == safeRun(Merged(options),
                          IF backend = "playwright"
                            THEN PlaywrightOpenTab(S, u, navOk)
                            ELSE PuppeteerOpenTab(S, u, navOk, actionOptions))
       IN  /\ tabs' = out.s.tabs
           /\ currentTab' = out.s.currentTab
           /\ page' = out.s.page
           /\ url' = out.s.url
           /\ closed' = out.s.closed
           /\ contextOpen' = out.s.contextOpen
           /\ browserOpen' = out.s.browserOpen
           /\ lastCall' = [op |-> "openTab", url |-> u, tabNumber |-> NoTab,
                           failed |-> out.failed, err |-> out.err,
                           raised |-> out.raised, value |-> out.value,
                           target |-> out.target,
                           idxEmpty |-> out.idxEmpty,
                           options |-> options, tabsBefore |-> tabs,
                           navFailed |-> ~navOk]
           /\ trace' = Track(trace, Label("openTab", u, NoTab), out.failed)
  /\ UNCHANGED <<sites, twin, backend, config, projectConfig, dom, elem, ecall>>

NextPolicy == OpenTabTo \/ NavigateTo \/ GetUrl \/ SwitchToTab
SpecPolicy == InitElem /\ [][NextPolicy]_vars

\* C26: the call-site options of openTab(url, options) govern the whole
\* call, its navigation included: when the navigation fails, the failure
\* propagates if the call-site throwOnFail is true and is swallowed if it
\* is false, whatever the session default is, in both backends.
OpenTabOptionsGovernNavigation ==
  (/\ lastCall.op = "openTab"
   /\ lastCall.navFailed
   /\ "throwOnFail" \in DOMAIN lastCall.options) =>
    lastCall.raised = lastCall.options.throwOnFail

SwitchTabChecksRange ==
  (lastCall.op = "switchTab" /\ tabs # << >>) =>
    /\ 0 <= currentTab /\ currentTab < Len(tabs)
    /\ (lastCall.tabNumber < 0 \/ lastCall.tabNumber > Len(tabs) - 1) =>
         lastCall.failed

----------------------------------------------------------------------------
(* Elements and tabs.                                                      *)

\* init() returned under defaultConfig and every page shows AllNodes.
InitBound ==
  /\ InitElem
  /\ projectConfig = NoOptions

NextBound == OpenTab \/ SwitchToTab \/ Selector \/ Click
SpecBound == InitBound /\ [][NextBound]_vars

\* C27: an Element returned by Browser.selector(sel) is bound to the tab
\* that was current when it was created: its operations act on that tab
\* also after a later openTab or switchToTab, and no tab operation changes
\* an existing Element.
ElementBoundToCreationTab ==
  /\ []((ecall.op = "click" /\ elem.made.by = "selector") =>
          ecall.onPage = elem.made.current)
  /\ [][lastCall' # lastCall => elem' = elem]_vars


----------------------------------------------------------------------------
(* openTab and closeTab of two call sites, interleaved at their awaits.    *)
(* A callback runs without interruption from one await to the next; the    *)
(* engine acts when it is called and the callback resumes at a later step. *)

\* The engine and session fields take the values of s.
Becomes(s) ==
  /\ tabs' = s.tabs
  /\ currentTab' = s.currentTab
  /\ page' = s.page
  /\ url' = s.url
  /\ closed' = s.closed
  /\ contextOpen' = s.contextOpen
  /\ browserOpen' = s.browserOpen

\* A callback stopped at an await: the caller has not seen anything yet.
Suspended(s) ==
  /\ Becomes(s)
  /\ UNCHANGED <<lastCall, trace, backend, config, projectConfig, dom, elem,
                 ecall, twin>>

\* openTab, from the resolution of newPage() to the next await or the end.
PlaywrightOpenTabPush(s, newPage) ==
  LET s2 == [s EXCEPT !.tabs = Append(@, newPage)]
      s3 == [s2 EXCEPT !.currentTab = Len(s2.tabs) - 1]
  IN  [s3 EXCEPT !.page = newPage]

PuppeteerOpenTabPush(s, newPage) ==
  LET s2 == [s EXCEPT !.tabs = Append(@, newPage)]
  IN  [s2 EXCEPT !.currentTab = Len(s2.tabs) - 1]

\* closeTab, from the resolution of close() to the end.
PlaywrightCloseTabSplice(s) ==
  LET s1 == IF Len(s.tabs) = 0 THEN BrowserClose(ContextClose(s)) ELSE s
      s2 == [s1 EXCEPT !.tabs = Splice1(@, s1.currentTab)]
      s3 == [s2 EXCEPT !.currentTab = Len(s2.tabs) - 1]
  IN  [s3 EXCEPT !.page = At(s3.tabs, s3.currentTab)]

PuppeteerCloseTabSplice(s) ==
  LET s1 == [s EXCEPT !.tabs = Splice1(@, s.currentTab)]
  IN  [s1 EXCEPT !.currentTab = Len(s1.tabs) - 1]

\* openTab(u) is called and stops at `await this.context.newPage()`.
OpenTabCalled ==
  /\ Usable
  /\ sites.openTab.at = "idle"
  /\ Len(url) < MaxPages
  /\ \E u \in URLs \cup {NoUrl} :
       IF ~CanNewPage(S)
       THEN /\ SessionCall("openTab", u, NoTab,
                           safeRun(actionOptions,
                                   Fail(S, "Engine", NoPage, FALSE)))
            /\ UNCHANGED <<sites, twin>>
       ELSE /\ Suspended(NewPage(S))
            /\ sites' = [sites EXCEPT !.openTab =
                           [at |-> "newPage", page |-> Len(url) + 1,
                            url |-> u, ok |-> TRUE, err |-> "none"]]

\* newPage() resolved: the tab is pushed and, with a url, the callback stops
\* at the await of its navigation (on this.page, in both classes).
OpenTabResumed ==
  /\ sites.openTab.at = "newPage"
  /\ LET site == sites.openTab
         s3   == IF backend = "playwright"
                 THEN PlaywrightOpenTabPush(S, site.page)
                 ELSE PuppeteerOpenTabPush(S, site.page)
     IN  IF site.url = NoUrl
         THEN /\ SessionCall("openTab", site.url, NoTab,
                             safeRun(actionOptions,
                                     Ok(s3, Undefined, NoPage, FALSE)))
              /\ sites' = [sites EXCEPT !.openTab = Idle]
              /\ UNCHANGED twin
         ELSE \E navOk \in BOOLEAN :
                LET nav == PageGoto(s3, s3.page, site.url, navOk)
                IN  /\ Suspended(nav.s)
                    /\ sites' = [sites EXCEPT !.openTab =
                                   [at |-> "goto", page |-> nav.target,
                                    url |-> site.url, ok |-> nav.ok,
                                    err |-> nav.err]]

\* The navigation settled: openTab returns.  In PuppeteerBrowser the
\* navigation is a nested navigateTo under the session's options.
OpenTabReturned ==
  /\ sites.openTab.at = "goto"
  /\ LET site == sites.openTab
         r    == IF site.ok THEN Ok(S, Undefined, site.page, FALSE)
                 ELSE Fail(S, site.err, site.page, FALSE)
         nav  == safeRun(actionOptions, r)
         out  == IF backend = "playwright" THEN r
                 ELSE IF nav.raised THEN r
                 ELSE Ok(S, Undefined, site.page, FALSE)
     IN  /\ SessionCall("openTab", site.url, NoTab,
                        safeRun(actionOptions, out))
         /\ sites' = [sites EXCEPT !.openTab = Idle]
         /\ UNCHANGED twin

\* closeTab() is called and stops at the await of close(): of this.page in
\* PlaywrightBrowser, of tabs[currentTab] in PuppeteerBrowser.
CloseTabCalled ==
  /\ Usable
  /\ sites.closeTab.at = "idle"
  /\ \E closeOk \in BOOLEAN :
       LET p == IF backend = "playwright" THEN page
                ELSE At(tabs, currentTab)
           c == PageClose(S, p, closeOk)
       IN  IF p = NoPage
           THEN /\ SessionCall("closeTab", NoUrl, NoTab,
                       safeRun(actionOptions,
                               [c EXCEPT !.idxEmpty =
                                  (backend = "puppeteer" /\ Len(tabs) = 0)]))
                /\ UNCHANGED <<sites, twin>>
           ELSE /\ Suspended(c.s)
                /\ sites' = [sites EXCEPT !.closeTab =
                               [at |-> "close", page |-> p, url |-> NoUrl,
                                ok |-> c.ok, err |-> c.err]]

\* close() settled: the callback splices tabs at this.currentTab as it is
\* now, and closeTab returns.
CloseTabResumed ==
  /\ sites.closeTab.at = "close"
  /\ LET site == sites.closeTab
         s4   == IF backend = "playwright" THEN PlaywrightCloseTabSplice(S)
                 ELSE PuppeteerCloseTabSplice(S)
         out  == IF site.ok THEN Ok(s4, Undefined, site.page, FALSE)
                 ELSE Fail(S, site.err, site.page, FALSE)
     IN  /\ SessionCall("closeTab", NoUrl, NoTab, safeRun(actionOptions, out))
         /\ sites' = [sites EXCEPT !.closeTab = Idle]
         /\ UNCHANGED twin

NextRace ==
  \/ OpenTabCalled
  \/ OpenTabResumed
  \/ OpenTabReturned
  \/ CloseTabCalled
  \/ CloseTabResumed

SpecRace == InitBound /\ [][NextRace]_vars

\* Every page of tabs is open, and every open page of the session is in tabs.
TabsAreTheOpenPages ==
  /\ \A i \in 1 .. Len(tabs) : ~closed[tabs[i]]
  /\ \A p \in 1 .. Len(url) :
       ~closed[p] => \E i \in 1 .. Len(tabs) : tabs[i] = p

\* C30: when a closeTab() and an openTab() of one session are interleaved by
\* two call sites, each suspended at its backend await, closeTab removes
\* from tabs the page it closed: once both calls have returned, tabs holds
\* no closed page and misses no open page of the session.
InterleavedCloseTabRemovesClosedPage ==
  sites = NoSites => TabsAreTheOpenPages

====
